---- MODULE Spec2Model ----
(***************************************************************************)
(* Model of dev_sdk/read_h5.py: the fixed-point codec (float_to_fixed),    *)
(* the layer extractor (load_h5_model), the quantization pass              *)
(* (convert_weights_to_fixed), the Move code generator                     *)
(* (generate_move_code) and the driver (generate_move_files, main).        *)
(*                                                                         *)
(* Floats are modelled as signed decimal numbers mant * 10^exp plus the    *)
(* special values NaN, +inf, -inf and the two zeros.  Python ints that can *)
(* grow without bound (the magnitudes) are little-endian sequences of      *)
(* decimal digits, so that values beyond 2^64 are representable.           *)
(***************************************************************************)
EXTENDS Integers, Sequences, FiniteSets, TLC

\* ---------------------------------------------------------------- bounds
MaxScale == 2
MaxMant == 40
MaxFracDigits == 3
MaxExp10 == 20
MaxLayers == 2
MaxDim == 2

\* ------------------------------------------------------------- variables
VARIABLES
    scale,      \* the SCALE of the run (main: int(config["SCALE"]))
    cx,         \* codec harness: the float handed to float_to_fixed
    cres,       \* codec harness: what float_to_fixed gave, or NoResult
    model,      \* the H5 file's layers, in declared order: [name, weights]
    kerasLoads, \* whether tf.keras.models.load_model reads the file
    h5Opens,    \* whether h5py.File opens the file
    pc,         \* where main stands
    tried,      \* the loading strategies load_h5_model invoked, in order
    weights,    \* what load_h5_model returned
    converted,  \* what convert_weights_to_fixed returned
    moveCode,   \* what generate_move_code returned
    files,      \* which output files have been written
    error,      \* the exception that ended main, "" if none
    earlier,    \* what an earlier run on the same file and scale ended with
    ipc,        \* entry harness: next statement of initialize to execute
    chain       \* entry harness: the target environment's objects

vars == <<scale, cx, cres, model, kerasLoads, h5Opens, pc, tried, weights,
          converted, moveCode, files, error, earlier, ipc, chain>>
pipeVars == <<model, kerasLoads, h5Opens, pc, tried, weights, converted,
              moveCode, files, error, earlier>>
codecVars == <<cx, cres>>
entryVars == <<ipc, chain>>

\* ------------------------------------------------------ Python integers
RECURSIVE Pow10(_)
Pow10(k) == IF k = 0 THEN 1 ELSE 10 * Pow10(k - 1)

\* A Python int >= 0 as its decimal digits, least significant first; 0 is <<>>.
RECURSIVE Nat2Big(_)
Nat2Big(n) == IF n = 0 THEN <<>> ELSE <<n % 10>> \o Nat2Big(n \div 10)

RECURSIVE Big2Nat(_)
Big2Nat(b) == IF b = <<>> THEN 0 ELSE Head(b) + 10 * Big2Nat(Tail(b))

Zeros(k) == [i \in 1..k |-> 0]

\* b * 10^k for k >= 0
BigMulPow10(b, k) == IF b = <<>> THEN <<>> ELSE Zeros(k) \o b

Reverse(s) == [i \in 1..Len(s) |-> s[Len(s) + 1 - i]]

\* a < b on digit sequences without leading zeros
RECURSIVE BigLessMS(_, _)
BigLessMS(a, b) ==
    \* a, b most significant digit first, of equal length
    IF a = <<>> THEN FALSE
    ELSE IF Head(a) # Head(b) THEN Head(a) < Head(b)
    ELSE BigLessMS(Tail(a), Tail(b))

BigLess(a, b) ==
    IF Len(a) # Len(b) THEN Len(a) < Len(b)
    ELSE BigLessMS(Reverse(a), Reverse(b))

\* 2^64 = 18446744073709551616, the first value a Move u64 cannot hold
TwoPow64 == Reverse(<<1,8,4,4,6,7,4,4,0,7,3,7,0,9,5,5,1,6,1,6>>)

\* ---------------------------------------------------------------- floats
Finite(n, m, e) == [kind |-> "finite", neg |-> n, mant |-> m, exp |-> e]
NaN == [kind |-> "nan", neg |-> FALSE, mant |-> 0, exp |-> 0]
Inf(n) == [kind |-> "inf", neg |-> n, mant |-> 0, exp |-> 0]

FiniteFloats ==
    { Finite(n, m, e) : n \in BOOLEAN, m \in 0..MaxMant,
                        e \in (0 - MaxFracDigits)..MaxExp10 }
Floats == FiniteFloats \cup {NaN, Inf(FALSE), Inf(TRUE)}

\* x < 0 (line 64): false for NaN and for both zeros
PyLt0_SignBit(x) == x.neg
PyLt0(x) ==
    \/ x.kind = "inf" /\ x.neg
    \/ x.kind = "finite" /\ x.neg /\ x.mant > 0

\* abs(x) (line 65)
PyAbs(x) == [x EXCEPT !.neg = FALSE]

\* x * factor with factor = 10 ** scale (lines 66-67); NaN and inf are absorbing
PyMulPow10(x, s) ==
    IF x.kind = "finite" THEN [x EXCEPT !.exp = x.exp + s] ELSE x

\* n / q rounded to the nearest integer, ties to the even one (Python 3 round)
RoundHalfEven(n, q) ==
    LET f == n \div q
        r == n % q
    IN  IF 2 * r < q THEN f
        ELSE IF 2 * r > q THEN f + 1
        ELSE IF f % 2 = 0 THEN f ELSE f + 1

RoundHalfUp(n, q) ==
    LET f == n \div q
        r == n % q
    IN  IF 2 * r < q THEN f ELSE f + 1

Returned(s, m) == [raised |-> "", sign |-> s, mag |-> m]
Raised(e) == [raised |-> e, sign |-> 0, mag |-> <<>>]

\* round(y) for y >= 0 (line 67): an int, or ValueError / OverflowError
PyRound_HalfUp(y) ==
    IF y.kind = "nan" THEN Raised("ValueError")
    ELSE IF y.kind = "inf" THEN Raised("OverflowError")
    ELSE IF y.exp >= 0 THEN Returned(0, BigMulPow10(Nat2Big(y.mant), y.exp))
    ELSE Returned(0, Nat2Big(RoundHalfUp(y.mant, Pow10(0 - y.exp))))
PyRound_NoReject(y) ==
    IF y.kind # "finite" THEN Returned(0, <<>>)
    ELSE IF y.exp >= 0 THEN Returned(0, BigMulPow10(Nat2Big(y.mant), y.exp))
    ELSE Returned(0, Nat2Big(RoundHalfEven(y.mant, Pow10(0 - y.exp))))
PyRound(y) ==
    IF y.kind = "nan" THEN Raised("ValueError")
    ELSE IF y.kind = "inf" THEN Raised("OverflowError")
    ELSE IF y.exp >= 0 THEN Returned(0, BigMulPow10(Nat2Big(y.mant), y.exp))
    ELSE Returned(0, Nat2Big(RoundHalfEven(y.mant, Pow10(0 - y.exp))))

NoResult == [raised |-> "pending", sign |-> 0, mag |-> <<>>]

\* float_to_fixed (lines 62-68)
float_to_fixed(x, s) ==
    LET sign_bit == IF PyLt0(x) THEN 1 ELSE 0
        ax == PyAbs(x)
        abs_val == PyRound(PyMulPow10(ax, s))
    IN  IF abs_val.raised # "" THEN abs_val
        ELSE Returned(sign_bit, abs_val.mag)

\* ------------------------------------------------------- numpy arrays
\* An ndarray of rank 1 or 2: its shape and its element at every index.
Indices(shape) ==
    IF Len(shape) = 1 THEN { <<i>> : i \in 1..shape[1] }
    ELSE { <<r, c>> : r \in 1..shape[1], c \in 1..shape[2] }

Size(shape) == IF Len(shape) = 1 THEN shape[1] ELSE shape[1] * shape[2]

\* the index of the i-th element in C (row-major) order
Unravel(i, shape) ==
    IF Len(shape) = 1 THEN <<i>>
    ELSE <<((i - 1) \div shape[2]) + 1, ((i - 1) % shape[2]) + 1>>

\* ndarray.flatten() (lines 151, 158)
Flatten(a) == [i \in 1..Size(a.shape) |-> a.elem[Unravel(i, a.shape)]]

\* ------------------------------------------------------- the input file
\* Layer names are sequences of name fragments.  A file that Keras reads
\* names its layers a, b, ...; a file only h5py reads has layers whose names
\* contain "dense" and layers whose names do not.
PlainNames == << <<"a">>, <<"b">>, <<"c">>, <<"d">> >>
DenseNames == << <<"dense">>, <<"b">>, <<"dense", "_1">>, <<"c">> >>

\* Keras takes any string as a layer's name= argument (layer.name, line 98):
\* names holding a space, a double quote, a backslash or a hyphen
OddNames ==
    << <<"my", " ", "layer">>, <<"q", "\"">>, <<"back", "\\", "slash">>,
       <<"x", "-", "y">> >>

\* the names the layers of a file can bear, by what reads the file
NameSchemes(keras) == IF keras THEN {PlainNames, OddNames} ELSE {DenseNames}

\* every layer name, in the order h5py iterates group keys (by name)
SortedNames ==
    << <<"a">>, <<"b">>, <<"c">>, <<"d">>, <<"dense">>, <<"dense", "_1">> >>

BaseVals ==
    << Finite(FALSE, 37, -1), Finite(TRUE, 2, 0), Finite(FALSE, 5, -1),
       Finite(TRUE, 0, 0), Finite(FALSE, 25, -1), Finite(FALSE, 1005, -3),
       Finite(TRUE, 12, 0) >>

NonFinite == {NaN, Inf(FALSE), Inf(TRUE)}

MkArray(shape, seed) ==
    [shape |-> shape,
     elem |-> [ix \in Indices(shape) |->
                 BaseVals[((seed + ix[1] + (IF Len(ix) = 2 THEN 3 * ix[2] ELSE 0))
                           % Len(BaseVals)) + 1]]]

LayerKinds == {"none", "nobias", "dense", "mismatch", "norm", "three"}

\* the parameter arrays of a layer of the given kind
KindWeights(kind, r, c, p) ==
    CASE kind = "none" -> <<>>
      [] kind = "nobias" -> <<MkArray(<<r, c>>, p)>>
      [] kind = "dense" -> <<MkArray(<<r, c>>, p), MkArray(<<c>>, p + 2)>>
      [] kind = "mismatch" -> <<MkArray(<<r, c>>, p), MkArray(<<c + 1>>, p + 2)>>
      [] kind = "norm" -> <<MkArray(<<c>>, p), MkArray(<<c>>, p + 2)>>
      [] kind = "three" -> <<MkArray(<<r, c>>, p), MkArray(<<c>>, p + 2),
                             MkArray(<<c>>, p + 4)>>

\* the array with its last element replaced
Poke(a, v) == [a EXCEPT !.elem[a.shape] = v]

NoPoison == [layer |-> 0, weight |-> 0, val |-> NaN]

MkModel(kinds, names, r, c, poison) ==
    [i \in 1..Len(kinds) |->
        LET w == KindWeights(kinds[i], IF i % 2 = 1 THEN r ELSE c,
                             IF i % 2 = 1 THEN c ELSE r, i)
        IN  [name |-> names[i],
             weights |-> IF poison.layer = i
                         THEN [w EXCEPT ![poison.weight] = Poke(@, poison.val)]
                         ELSE w]]

KindSeqs == UNION { [1..n -> LayerKinds] : n \in 0..MaxLayers }

NumWeights(kind) == Len(KindWeights(kind, 1, 1, 1))

\* At most one array of a model holds a non-finite value: NaN in the kernel
\* of the first layer that has one, +inf in the bias of the last layer that
\* has one, -inf in the kernel of the last layer that has one.
Poisons(kinds) ==
    LET has(w) == { i \in 1..Len(kinds) : NumWeights(kinds[i]) >= w }
        first(S) == CHOOSE i \in S : \A j \in S : i <= j
        last(S) == CHOOSE i \in S : \A j \in S : j <= i
    IN  {NoPoison}
        \cup (IF has(1) = {} THEN {}
              ELSE { [layer |-> first(has(1)), weight |-> 1, val |-> NaN],
                     [layer |-> last(has(1)), weight |-> 1, val |-> Inf(TRUE)] })
        \cup (IF has(2) = {} THEN {}
              ELSE { [layer |-> last(has(2)), weight |-> 2, val |-> Inf(FALSE)] })

\* ----------------------------------------------------------------- load
\* one entry of converted_weights (lines 97-107, 125-135)
LayerRecord(name, kernel, bias) ==
    [layerName |-> name,
     kernel |-> [shape |-> kernel.shape, data |-> kernel],
     bias |-> [shape |-> bias.shape, data |-> bias]]

\* the loop over model.layers (lines 87-107)
RECURSIVE KerasLoop(_)
KerasLoop(layers) ==
    IF layers = <<>> THEN <<>>
    ELSE LET layer == Head(layers)
             rest == KerasLoop(Tail(layers))
         IN  IF Len(layer.weights) = 0 THEN rest
             ELSE IF Len(layer.weights) # 2 THEN rest
             ELSE <<LayerRecord(layer.name, layer.weights[1], layer.weights[2])>>
                  \o rest

\* 'dense' in layer_name (line 121)
ContainsDense(name) == \E i \in 1..Len(name) : name[i] = "dense"

\* f.keys() (line 120): one group per layer, iterated in name order
H5Keys(m) ==
    LET present(n) == \E i \in 1..Len(m) : m[i].name = n
    IN  SelectSeq(SortedNames, present)

H5Layer(m, n) == m[CHOOSE i \in 1..Len(m) : m[i].name = n]

\* f[layer_name]['dense']['kernel:0'] and ['bias:0'] (lines 122-123): a layer's
\* group holds one subgroup, named as the layer, with one dataset per
\* parameter array; a missing key raises KeyError
H5HasDatasets(layer) ==
    /\ layer.name = <<"dense">>
    /\ Len(layer.weights) >= 2

NoValue == <<>>

\* the loop over f.keys() (lines 118-135)
RECURSIVE H5Loop(_, _)
H5Loop(keys, m) ==
    IF keys = <<>> THEN [raised |-> "", value |-> <<>>]
    ELSE LET layer_name == Head(keys)
             layer == H5Layer(m, layer_name)
             rest == H5Loop(Tail(keys), m)
         IN  IF ~ContainsDense(layer_name) THEN rest
             ELSE IF ~H5HasDatasets(layer)
                  THEN [raised |-> "KeyError", value |-> NoValue]
             ELSE IF rest.raised # "" THEN rest
             ELSE [raised |-> "",
                   value |-> <<LayerRecord(layer_name, layer.weights[1],
                                           layer.weights[2])>> \o rest.value]

\* load_h5_model (lines 70-142)
load_h5_model_NoFallback(m, keras, h5) ==
    IF keras
    THEN [raised |-> "", tried |-> <<"keras">>, value |-> KerasLoop(m)]
    ELSE [raised |-> "Exception", tried |-> <<"keras">>, value |-> NoValue]
load_h5_model(m, keras, h5) ==
    IF keras
    THEN [raised |-> "", tried |-> <<"keras">>, value |-> KerasLoop(m)]
    ELSE IF ~h5
         THEN [raised |-> "Exception", tried |-> <<"keras", "h5py">>,
               value |-> NoValue]
    ELSE LET r == H5Loop(H5Keys(m), m)
         IN  IF r.raised # ""
             THEN [raised |-> "Exception", tried |-> <<"keras", "h5py">>,
                   value |-> NoValue]
             ELSE [raised |-> "", tried |-> <<"keras", "h5py">>,
                   value |-> r.value]

\* -------------------------------------------------------------- convert
\* the loops of lines 151-154 and 158-161 over one flattened array
ConvertArray(a, s) ==
    LET flat == Flatten(a)
        enc == [i \in 1..Len(flat) |-> float_to_fixed(flat[i], s)]
        bad == { i \in 1..Len(flat) : enc[i].raised # "" }
    IN  IF bad # {}
        THEN [raised |-> enc[CHOOSE i \in bad : \A j \in bad : i <= j].raised,
              sign |-> <<>>, magnitude |-> <<>>]
        ELSE [raised |-> "",
              sign |-> [i \in 1..Len(flat) |-> enc[i].sign],
              magnitude |-> [i \in 1..Len(flat) |-> enc[i].mag]]

\* convert_weights_to_fixed (lines 144-178)
RECURSIVE convert_weights_to_fixed(_, _)
convert_weights_to_fixed(ws, s) ==
    IF ws = <<>> THEN [raised |-> "", value |-> <<>>]
    ELSE LET layer == Head(ws)
             k == ConvertArray(layer.kernel.data, s)
             b == ConvertArray(layer.bias.data, s)
             rest == convert_weights_to_fixed(Tail(ws), s)
         IN  IF k.raised # "" THEN [raised |-> k.raised, value |-> NoValue]
             ELSE IF b.raised # "" THEN [raised |-> b.raised, value |-> NoValue]
             ELSE IF rest.raised # "" THEN rest
             ELSE [raised |-> "",
                   value |->
                     << [layerName |-> layer.layerName,
                         kernel |-> [magnitude |-> k.magnitude, sign |-> k.sign,
                                     shape |-> layer.kernel.shape],
                         bias |-> [magnitude |-> b.magnitude, sign |-> b.sign,
                                   shape |-> layer.bias.shape],
                         scale |-> s] >> \o rest.value]

\* ------------------------------------------------------------- generate
\* Generated text is a sequence of chunks, each a sequence of strings: a
\* chunk is a piece of literal text, a rendered number, a layer name or a
\* line break.  Indentation is left out.
T(str) == <<str>>
NL == <<"\n">>

DigitChars == <<"0", "1", "2", "3", "4", "5", "6", "7", "8", "9">>

\* str(n) of a Python int: decimal digits, most significant first
Str(b) ==
    IF b = <<>> THEN <<"0">>
    ELSE [i \in 1..Len(b) |-> DigitChars[b[Len(b) + 1 - i] + 1]]

StrNat(n) == Str(Nat2Big(n))

\* ', '.join(strs) (lines 197-200)
RECURSIVE JoinComma(_)
JoinComma(strs) ==
    IF strs = <<>> THEN <<>>
    ELSE IF Len(strs) = 1 THEN <<strs[1]>>
    ELSE <<strs[1], T(", ")>> \o JoinComma(Tail(strs))

\* f"vector[{', '.join(map(str, xs))}]" (lines 197-200)
VectorOfBig(xs) ==
    <<T("vector[")>> \o JoinComma([i \in 1..Len(xs) |-> Str(xs[i])]) \o <<T("]")>>
VectorOfNat(xs) ==
    <<T("vector[")>> \o JoinComma([i \in 1..Len(xs) |-> StrNat(xs[i])]) \o <<T("]")>>

\* the f-string of lines 182-188 ({{ renders as {)
ModuleHeader ==
    << T("module models::model {"), NL,
       T("use sui::tx_context::TxContext;"), NL,
       T("use tensorflowsui::graph;"), NL,
       T("use tensorflowsui::tensor;"), NL,
       NL,
       T("public fun create_model_signed_fixed(graph: &mut graph::SignedFixedGraph, scale: u64) {"),
       NL >>

DeclPrefix == T("graph::DenseSignedFixed(graph, ")

\* one layer declaration (lines 192-193)
DeclLine(layer) ==
    LET input_size == layer.kernel.shape[1]
        output_size == layer.kernel.shape[2]
    IN  << DeclPrefix, StrNat(input_size), T(", "), StrNat(output_size),
           T(", b\""), layer.layerName, T("\", scale);"), NL >>

AttachPrefix == T("graph::set_layer_weights_signed_fixed(")

\* one weight block (lines 197-215)
WeightBlock(layer) ==
    LET kernel_mag == VectorOfBig(layer.kernel.magnitude)
        kernel_sign == VectorOfNat(layer.kernel.sign)
        bias_mag == VectorOfBig(layer.bias.magnitude)
        bias_sign == VectorOfNat(layer.bias.sign)
        n == layer.layerName
    IN  << NL, T("let w"), n, T("_mag = ") >> \o kernel_mag \o
        << T(";"), NL, T("let w"), n, T("_sign = ") >> \o kernel_sign \o
        << T(";"), NL, T("let b"), n, T("_mag = ") >> \o bias_mag \o
        << T(";"), NL, T("let b"), n, T("_sign = ") >> \o bias_sign \o
        << T(";"), NL,
           NL,
           AttachPrefix, NL,
           T("graph,"), NL,
           T("b\""), n, T("\","), NL,
           T("w"), n, T("_mag, w"), n, T("_sign,"), NL,
           T("b"), n, T("_mag, b"), n, T("_sign,"), NL,
           StrNat(layer.kernel.shape[1]), T(", "), StrNat(layer.kernel.shape[2]),
           T(","), NL,
           T("scale"), NL,
           T(");") >>

InitializeHead == T("public entry fun initialize(ctx: &mut TxContext) {")
BuilderCall == T("create_model_signed_fixed(&mut graph, ")

\* the statements of initialize (lines 277-282), as written in the plain
\* (not f-) string literal of lines 218-284: {scale} is not a replacement
\* field there
InitializeStmts_SharesFirst ==
    << T("let mut graph = graph::create_signed_graph(ctx);"), NL,
       BuilderCall, T("{scale}"), T(");"), NL,
       T("let mut partials = graph::create_partial_denses(ctx);"), NL,
       T("graph::share_graph(graph);"), NL,
       T("graph::share_partial(partials);"), NL,
       T("graph::add_partials_for_all_but_last(&graph, &mut partials);"), NL >>
InitializeStmts ==
    << T("let mut graph = graph::create_signed_graph(ctx);"), NL,
       BuilderCall, T("{scale}"), T(");"), NL,
       T("let mut partials = graph::create_partial_denses(ctx);"), NL,
       T("graph::add_partials_for_all_but_last(&graph, &mut partials);"), NL,
       T("graph::share_graph(graph);"), NL,
       T("graph::share_partial(partials);"), NL >>

\* the helper functions (lines 218-284); parameter lists and the local
\* copies of the results are left out
HelperFunctions ==
    << NL, T("}"), NL,
       NL,
       T("entry public fun split_chunk_compute("), NL,
       T("graph::split_chunk_compute(graph_obj, pd, partial_name, input_magnitude, input_sign, activation_type, start_j, end_j);"), NL,
       T("}"), NL,
       NL,
       T("entry public fun split_chunk_finalize("), NL,
       T("let (_results_mag, _result_sign, _results) = graph::split_chunk_finalize(pd, partial_name);"), NL,
       T("(results_mag, result_sign, results)"), NL,
       T("}"), NL,
       NL,
       T("entry public fun ptb_layer("), NL,
       T("let (_results_mag, _result_sign, _results) = graph::ptb_layer(graph, input_magnitude, input_sign, scale, name);"), NL,
       T("(results_mag, result_sign, results)"), NL,
       T("}"), NL,
       NL,
       T("entry public fun ptb_layer_arg_max("), NL,
       T("let results = graph::ptb_layer_arg_max(graph, input_magnitude, input_sign, scale, name);"), NL,
       T("results"), NL,
       T("}"), NL,
       NL,
       InitializeHead, NL >> \o
    InitializeStmts \o
    << T("}"), NL,
       T("}}") >>

RECURSIVE Concat(_)
Concat(ss) == IF ss = <<>> THEN <<>> ELSE Head(ss) \o Concat(Tail(ss))

\* the loop of lines 191-193
Declarations(cw) == Concat([i \in 1..Len(cw) |-> DeclLine(cw[i])])

\* the loop of lines 196-215
WeightBlocks_Reversed(cw) ==
    Concat([i \in 1..Len(cw) |-> WeightBlock(cw[Len(cw) + 1 - i])])
WeightBlocks(cw) == Concat([i \in 1..Len(cw) |-> WeightBlock(cw[i])])

\* generate_move_code (lines 180-286); unpacking a kernel shape that is not
\* a pair (line 192) raises ValueError
generate_move_code_Appends(cw, s) ==
    IF \E i \in 1..Len(cw) : Len(cw[i].kernel.shape) # 2
    THEN [raised |-> "ValueError", value |-> NoValue]
    ELSE [raised |-> "",
          value |-> moveCode \o ModuleHeader \o Declarations(cw)
                    \o WeightBlocks(cw) \o HelperFunctions]
generate_move_code(cw, s) ==
    IF \E i \in 1..Len(cw) : Len(cw[i].kernel.shape) # 2
    THEN [raised |-> "ValueError", value |-> NoValue]
    ELSE [raised |-> "",
          value |-> ModuleHeader \o Declarations(cw) \o WeightBlocks(cw)
                    \o HelperFunctions]

\* generate_move_toml (lines 288-304)
generate_move_toml ==
    << T("[package]"), NL, T("name = \"Model\""), NL,
       T("edition = \"2024.beta\""), NL >>

\* ------------------------------------------------------------ main
NoError == [stage |-> "", exc |-> ""]

\* no earlier run
NoEarlier == [ran |-> FALSE, code |-> NoValue, error |-> NoError]

Init ==
    /\ scale \in 0..MaxScale
    /\ kerasLoads \in BOOLEAN
    /\ h5Opens \in BOOLEAN
    /\ kerasLoads => h5Opens
    /\ \E ks \in KindSeqs, r \in 1..MaxDim, c \in 1..MaxDim :
         \E po \in Poisons(ks), names \in NameSchemes(kerasLoads) :
            model = MkModel(ks, names, r, c, po)
    /\ pc = "start"
    /\ tried = <<>> /\ weights = NoValue /\ converted = NoValue
    /\ moveCode = NoValue /\ files = {} /\ error = NoError /\ earlier = NoEarlier
    /\ cx = NaN /\ cres = NoResult
    /\ ipc = 0 /\ chain = <<>>

\* main, line 429: weights = load_h5_model(model_path)
Load ==
    /\ pc = "start"
    /\ LET r == load_h5_model(model, kerasLoads, h5Opens)
       IN  /\ tried' = r.tried
           /\ weights' = r.value
           /\ IF r.raised # ""
              THEN pc' = "failed" /\ error' = [stage |-> "load", exc |-> r.raised]
              ELSE pc' = "loaded" /\ error' = error
    /\ UNCHANGED <<scale, model, kerasLoads, h5Opens, converted, moveCode,
                   files, earlier, codecVars, entryVars>>

\* main, line 430: converted_weights = convert_weights_to_fixed(weights, scale)
Convert ==
    /\ pc = "loaded"
    /\ LET r == convert_weights_to_fixed(weights, scale)
       IN  /\ converted' = r.value
           /\ IF r.raised # ""
              THEN pc' = "failed" /\ error' = [stage |-> "convert", exc |-> r.raised]
              ELSE pc' = "converted" /\ error' = error
    /\ UNCHANGED <<scale, model, kerasLoads, h5Opens, tried, weights, moveCode,
                   files, earlier, codecVars, entryVars>>

\* main, line 433: generate_move_files (lines 306-323) writes Move.toml, then
\* generates the module text and writes model.move
GenerateMoveFiles ==
    /\ pc = "converted"
    /\ LET r == generate_move_code(converted, scale)
       IN  /\ moveCode' = r.value
           /\ IF r.raised # ""
              THEN /\ files' = files \cup {"Move.toml"}
                   /\ pc' = "failed"
                   /\ error' = [stage |-> "generate", exc |-> r.raised]
              ELSE /\ files' = files \cup {"Move.toml", "model.move"}
                   /\ pc' = "generated"
                   /\ error' = error
    /\ UNCHANGED <<scale, model, kerasLoads, h5Opens, tried, weights, converted,
                   earlier, codecVars, entryVars>>

\* main, line 436: publish_to_network (lines 325-381) returns or raises
Publish ==
    /\ pc = "generated"
    /\ \E ok \in BOOLEAN :
         IF ok THEN pc' = "published" /\ error' = error
         ELSE pc' = "failed" /\ error' = [stage |-> "publish", exc |-> "Exception"]
    /\ UNCHANGED <<scale, model, kerasLoads, h5Opens, tried, weights, converted,
                   moveCode, files, earlier, codecVars, entryVars>>

\* main, lines 439-441: store_train_data (lines 383-417) never raises
StoreTrainData ==
    /\ pc = "published"
    /\ pc' = "done"
    /\ UNCHANGED <<scale, model, kerasLoads, h5Opens, tried, weights, converted,
                   moveCode, files, error, earlier, codecVars, entryVars>>

Next == Load \/ Convert \/ GenerateMoveFiles \/ Publish \/ StoreTrainData

Spec == Init /\ [][Next]_vars

\* ------------------------------------------------------ a second run
\* The pipeline is run again (lines 442-443) on the same file, scale and
\* loaders, after a run that got as far as generate_move_files.  What the
\* earlier run returned and wrote stays in place until the new run's calls
\* replace it.
Rerun ==
    /\ earlier = NoEarlier
    /\ \/ pc = "generated"
       \/ pc = "failed" /\ error.stage \in {"load", "convert", "generate"}
    /\ earlier' = [ran |-> TRUE, code |-> moveCode, error |-> error]
    /\ pc' = "start"
    /\ error' = NoError
    /\ UNCHANGED <<scale, model, kerasLoads, h5Opens, tried, weights, converted,
                   moveCode, files, codecVars, entryVars>>

NextTwice == Load \/ Convert \/ GenerateMoveFiles \/ Rerun

SpecTwice == Init /\ [][NextTwice]_vars

\* --------------------------------------------- reading generated text
\* the lines of a text: the chunks between line breaks
RECURSIVE SplitLines(_)
SplitLines(t) ==
    IF \A i \in 1..Len(t) : t[i] # NL THEN <<t>>
    ELSE LET i == CHOOSE j \in 1..Len(t) :
                     t[j] = NL /\ \A k \in 1..(j - 1) : t[k] # NL
         IN  <<SubSeq(t, 1, i - 1)>> \o SplitLines(SubSeq(t, i + 1, Len(t)))

StartsWith(line, chunk) == line # <<>> /\ line[1] = chunk

\* the indices of the lines that start with chunk, ascending
RECURSIVE PositionsFrom(_, _, _)
PositionsFrom(ls, chunk, i) ==
    IF i > Len(ls) THEN <<>>
    ELSE (IF StartsWith(ls[i], chunk) THEN <<i>> ELSE <<>>)
         \o PositionsFrom(ls, chunk, i + 1)

Positions(ls, chunk) == PositionsFrom(ls, chunk, 1)

\* the items of the vector literal in a line: the chunks between "vector["
\* and "]", separators dropped
VectorItems(line) ==
    LET open == CHOOSE i \in 1..Len(line) : line[i] = T("vector[")
        close == CHOOSE i \in 1..Len(line) : line[i] = T("]")
        inner == SubSeq(line, open + 1, close - 1)
        isItem(ch) == ch # T(", ")
    IN  SelectSeq(inner, isItem)

\* the statements of the generated initialize entry point
InitBody(text) ==
    LET ls == SplitLines(text)
        h == CHOOSE i \in 1..Len(ls) : ls[i] = <<InitializeHead>>
        e == CHOOSE i \in (h + 1)..Len(ls) :
                 ls[i] = <<T("}")>> /\ \A k \in (h + 1)..(i - 1) : ls[k] # <<T("}")>>
    IN  SubSeq(ls, h + 1, e - 1)

\* the layer names declared by the generated graph builder, in order
DeclaredNames(text) ==
    LET ls == SplitLines(text)
        ps == Positions(ls, DeclPrefix)
    IN  [k \in 1..Len(ps) |-> ls[ps[k]][6]]

\* ------------------------------------------- the generated entry point
\* The objects of the target environment while initialize runs.
EmptyChain ==
    [graphs |-> 0, layers |-> <<>>, partialObjs |-> 0, partials |-> <<>>,
     shared |-> <<>>, log |-> <<>>]

\* graph::add_partials_for_all_but_last: chunked state for every layer of the
\* graph except the last
AddPartialsForAllButLast(layers) == SubSeq(layers, 1, Len(layers) - 1)

\* the effect of one statement of initialize on the target environment
ExecStmt(stmt, ch, text) ==
    CASE stmt[1] = T("let mut graph = graph::create_signed_graph(ctx);") ->
           [ch EXCEPT !.graphs = @ + 1, !.log = Append(@, "create_signed_graph")]
      [] stmt[1] = BuilderCall ->
           [ch EXCEPT !.layers = @ \o DeclaredNames(text),
                      !.log = Append(@, "create_model_signed_fixed")]
      [] stmt[1] = T("let mut partials = graph::create_partial_denses(ctx);") ->
           [ch EXCEPT !.partialObjs = @ + 1,
                      !.log = Append(@, "create_partial_denses")]
      [] stmt[1] = T("graph::add_partials_for_all_but_last(&graph, &mut partials);") ->
           [ch EXCEPT !.partials = @ \o AddPartialsForAllButLast(ch.layers),
                      !.log = Append(@, "add_partials_for_all_but_last")]
      [] stmt[1] = T("graph::share_graph(graph);") ->
           [ch EXCEPT !.shared = Append(@, "graph"),
                      !.log = Append(@, "share_graph")]
      [] stmt[1] = T("graph::share_partial(partials);") ->
           [ch EXCEPT !.shared = Append(@, "partials"),
                      !.log = Append(@, "share_partial")]

\* a run of the pipeline that produced a module, about to run initialize
InitEntry ==
    /\ scale \in 0..MaxScale
    /\ \E ks \in KindSeqs, r \in 1..MaxDim, c \in 1..MaxDim :
         /\ \A i \in 1..Len(ks) : ks[i] # "norm"
         /\ model = MkModel(ks, PlainNames, r, c, NoPoison)
    /\ kerasLoads = TRUE /\ h5Opens = TRUE
    /\ pc = "entry"
    /\ tried = <<"keras">>
    /\ weights = load_h5_model(model, TRUE, TRUE).value
    /\ converted = convert_weights_to_fixed(weights, scale).value
    /\ moveCode = generate_move_code(converted, scale).value
    /\ files = {"Move.toml", "model.move"}
    /\ error = NoError /\ earlier = NoEarlier
    /\ cx = NaN /\ cres = NoResult
    /\ ipc = 1 /\ chain = EmptyChain

\* initialize executes its next statement
Step ==
    /\ pc = "entry"
    /\ ipc <= Len(InitBody(moveCode))
    /\ chain' = ExecStmt(InitBody(moveCode)[ipc], chain, moveCode)
    /\ ipc' = ipc + 1
    /\ UNCHANGED <<scale, pipeVars, codecVars>>

NextEntry == Step

SpecEntry == InitEntry /\ [][NextEntry]_vars

\* ------------------------------------------------- codec specification
InitCodec ==
    /\ scale \in 0..MaxScale
    /\ cx \in Floats
    /\ cres = NoResult
    /\ model = <<>> /\ kerasLoads = TRUE /\ h5Opens = TRUE
    /\ pc = "codec" /\ tried = <<>> /\ weights = <<>> /\ converted = <<>>
    /\ moveCode = <<>> /\ files = {} /\ error = NoError /\ earlier = NoEarlier
    /\ ipc = 0 /\ chain = <<>>

\* one call float_to_fixed(cx, scale)
Encode ==
    /\ cres = NoResult
    /\ cres' = float_to_fixed(cx, scale)
    /\ UNCHANGED <<scale, cx, pipeVars, entryVars>>

NextCodec == Encode

SpecCodec == InitCodec /\ [][NextCodec]_vars

cdone == cres # NoResult

C7_MagnitudeFitsU64 ==
    (cdone /\ cres.raised = "") => BigLess(cres.mag, TwoPow64)

\* ---------------------------------------------------- pipeline claims
LoadReturned == pc \in {"loaded", "converted", "generated", "published", "done"}
                \/ (pc = "failed" /\ error.stage # "load")
ConvertReturned == pc \in {"converted", "generated", "published", "done"}
                   \/ (pc = "failed" /\ error.stage \notin {"load", "convert"})

\* C3 as stated: for every layer handed to convert_weights_to_fixed the kernel
\* magnitude and sign lists have length rows*cols and list the encodings of
\* the kernel in row-major order, the bias lists have length cols (the
\* kernel's second dimension) and follow the bias order, the stored shapes
\* are the input shapes and the layers keep their order.
C3_QuantizePreservesLayout ==
    ConvertReturned =>
        /\ Len(converted) = Len(weights)
        /\ \A i \in 1..Len(weights) :
             LET w == weights[i]
                 q == converted[i]
             IN  /\ q.layerName = w.layerName
                 /\ q.kernel.shape = w.kernel.shape
                 /\ q.bias.shape = w.bias.shape
                 /\ Len(w.kernel.shape) = 2 =>
                      LET rows == w.kernel.shape[1]
                          cols == w.kernel.shape[2]
                      IN  /\ Len(q.kernel.magnitude) = rows * cols
                          /\ Len(q.kernel.sign) = rows * cols
                          /\ \A r \in 1..rows, c \in 1..cols :
                               LET e == float_to_fixed(w.kernel.data.elem[<<r, c>>], scale)
                               IN  /\ q.kernel.magnitude[(r - 1) * cols + c] = e.mag
                                   /\ q.kernel.sign[(r - 1) * cols + c] = e.sign
                          /\ Len(q.bias.magnitude) = cols
                          /\ Len(q.bias.sign) = cols
                          /\ \A c \in 1..cols :
                               LET e == float_to_fixed(w.bias.data.elem[<<c>>], scale)
                               IN  /\ q.bias.magnitude[c] = e.mag
                                   /\ q.bias.sign[c] = e.sign

\* the layers of the model that expose exactly two parameter arrays, in the
\* declared order
TwoArrayLayers(m) ==
    LET two(l) == Len(l.weights) = 2
        sel == SelectSeq(m, two)
    IN  [i \in 1..Len(sel) |->
            LayerRecord(sel[i].name, sel[i].weights[1], sel[i].weights[2])]

\* C4 as stated: whichever strategy read the file, load_h5_model returns
\* exactly the layers with two parameter arrays, in declared order, and a
\* layer with another number of arrays is skipped without failing.
C4_LoadReturnsTwoArrayLayers ==
    /\ LoadReturned => weights = TwoArrayLayers(model)
    /\ (pc # "start" /\ h5Opens) => error.stage # "load"

\* C5 as stated: no layer record whose kernel column count differs from its
\* bias length leaves load_h5_model.
C5_ShapesValidated ==
    LoadReturned =>
        \A i \in 1..Len(weights) :
            Len(weights[i].kernel.shape) = 2 =>
                weights[i].bias.shape = <<weights[i].kernel.shape[2]>>

HasNonFinite(ws) ==
    \E i \in 1..Len(ws) :
        \/ \E ix \in Indices(ws[i].kernel.shape) :
               ws[i].kernel.data.elem[ix].kind # "finite"
        \/ \E ix \in Indices(ws[i].bias.shape) :
               ws[i].bias.data.elem[ix].kind # "finite"

\* C6: when a kernel or bias element of a loaded layer is NaN or infinite, at
\* every scale, the run never gets past convert_weights_to_fixed: it ends in
\* failure there, no quantized layers are returned, no module text is
\* generated and no output file is written.
C6_NonFiniteAborts ==
    (LoadReturned /\ HasNonFinite(weights)) =>
        /\ pc \in {"loaded", "failed"}
        /\ pc = "failed" => error.stage = "convert"
        /\ ~ConvertReturned
        /\ converted = NoValue
        /\ moveCode = NoValue
        /\ files = {}

\* a run whose second layer holds +inf has failed in convert_weights_to_fixed
C6_Witness ==
    /\ pc = "failed" /\ error = [stage |-> "convert", exc |-> "OverflowError"]
    /\ Len(weights) = 2 /\ ~HasNonFinite(<<weights[1]>>)
    /\ files = {} /\ scale = MaxScale

\* C8, in the state generate_move_code returns to: for every quantized layer sequence generate_move_code emits one
\* dense-layer declaration per layer, in order, with input size
\* kernelShape[0], output size kernelShape[1] and the layer's name; every
\* declaration precedes every weight block; then one weight block per layer,
\* in order, whose four vector literals list the kernel magnitudes, kernel
\* signs, bias magnitudes and bias signs in quantized order, followed by one
\* attach call naming the same layer with the same (rows, cols).
C8_GeneratedStructure ==
    pc = "generated" =>
        LET ls == SplitLines(moveCode)
            n == Len(converted)
            decl == Positions(ls, DeclPrefix)
            wlet == Positions(ls, T("let w"))
            blet == Positions(ls, T("let b"))
            att == Positions(ls, AttachPrefix)
        IN  /\ Len(decl) = n
            /\ Len(wlet) = 2 * n /\ Len(blet) = 2 * n /\ Len(att) = n
            /\ \A k \in 1..n :
                 LET q == converted[k]
                     d == ls[decl[k]]
                     km == ls[wlet[2 * k - 1]]
                     ks == ls[wlet[2 * k]]
                     bm == ls[blet[2 * k - 1]]
                     bs == ls[blet[2 * k]]
                     a == att[k]
                 IN  /\ d = << DeclPrefix, StrNat(q.kernel.shape[1]), T(", "),
                               StrNat(q.kernel.shape[2]), T(", b\""), q.layerName,
                               T("\", scale);") >>
                     /\ \A j \in 1..Len(wlet) : decl[k] < wlet[j]
                     /\ km[2] = q.layerName /\ km[3] = T("_mag = ")
                     /\ VectorItems(km) =
                          [i \in 1..Len(q.kernel.magnitude) |-> Str(q.kernel.magnitude[i])]
                     /\ ks[2] = q.layerName /\ ks[3] = T("_sign = ")
                     /\ VectorItems(ks) =
                          [i \in 1..Len(q.kernel.sign) |-> StrNat(q.kernel.sign[i])]
                     /\ bm[2] = q.layerName /\ bm[3] = T("_mag = ")
                     /\ VectorItems(bm) =
                          [i \in 1..Len(q.bias.magnitude) |-> Str(q.bias.magnitude[i])]
                     /\ bs[2] = q.layerName /\ bs[3] = T("_sign = ")
                     /\ VectorItems(bs) =
                          [i \in 1..Len(q.bias.sign) |-> StrNat(q.bias.sign[i])]
                     /\ wlet[2 * k - 1] < wlet[2 * k] /\ wlet[2 * k] < blet[2 * k - 1]
                     /\ blet[2 * k - 1] < blet[2 * k] /\ blet[2 * k] < a
                     /\ k < n => a < wlet[2 * k + 1]
                     /\ ls[a + 2] = << T("b\""), q.layerName, T("\",") >>
                     /\ ls[a + 3] = << T("w"), q.layerName, T("_mag, w"),
                                       q.layerName, T("_sign,") >>
                     /\ ls[a + 4] = << T("b"), q.layerName, T("_mag, b"),
                                       q.layerName, T("_sign,") >>
                     /\ ls[a + 5] = << StrNat(q.kernel.shape[1]), T(", "),
                                       StrNat(q.kernel.shape[2]), T(",") >>

\* two layers of different shapes and values have been generated
C8_Witness ==
    /\ pc = "generated" /\ Len(converted) = 2
    /\ converted[1].kernel.shape = <<1, 2>>
    /\ converted[2].kernel.shape = <<2, 1>>
    /\ converted[1].bias.shape = <<3>>

\* C9 as stated: the generated initialize passes the decimal literal of the
\* scale s given to generate_move_code to the graph builder.
C9_InitPassesScaleLiteral ==
    pc = "generated" =>
        LET body == InitBody(moveCode)
        IN  \E i \in 1..Len(body) :
                body[i] = << BuilderCall, StrNat(scale), T(");") >>

\* ------------------------------------------------- entry point claims
\* C10: for n >= 1 layers the generated initialize performs, in this order
\* and once each: create the graph, run the graph builder and weight loader,
\* create the chunked-computation state, register chunked state for the
\* first n-1 layers and not for the last, publish the graph and the chunked
\* state as shared objects; for layers "a", "b" only "a" gets chunked state.
C10_InitializeOrder ==
    (pc = "entry" /\ Len(converted) >= 1) =>
        LET names == [i \in 1..Len(converted) |-> converted[i].layerName]
            n == Len(names)
            order == << "create_signed_graph", "create_model_signed_fixed",
                        "create_partial_denses", "add_partials_for_all_but_last",
                        "share_graph", "share_partial" >>
        IN  /\ ipc - 1 <= Len(order)
            /\ chain.log = SubSeq(order, 1, ipc - 1)
            /\ ipc > Len(InitBody(moveCode)) =>
                 /\ chain.log = order
                 /\ chain.graphs = 1 /\ chain.partialObjs = 1
                 /\ chain.layers = names
                 /\ chain.partials = SubSeq(names, 1, n - 1)
                 /\ \A i \in 1..Len(chain.partials) : chain.partials[i] # names[n]
                 /\ chain.shared = <<"graph", "partials">>

\* initialize has run to its end on the layers "a", "b"
C10_Witness ==
    /\ pc = "entry" /\ ipc > Len(InitBody(moveCode))
    /\ Len(converted) = 2
    /\ converted[1].layerName = <<"a">> /\ converted[2].layerName = <<"b">>
    /\ chain.partials = << <<"a">> >>

\* ------------------------------------------------- layer name claims
\* the name fragments that cannot stand unescaped inside b"..." or inside an
\* identifier
UnsuitableFragments == {" ", "\"", "\\", "-"}

Suitable(name) == \A i \in 1..Len(name) : name[i] \notin UnsuitableFragments

\* C11 as stated: when some quantized layer's name is unsuitable as an
\* identifier or byte-string literal, generate_move_code fails with
\* InvalidIdentifier and produces no module text; every name embedded in an
\* emitted text is usable unescaped.
C11_UnsuitableNameRejected ==
    /\ (ConvertReturned /\ pc # "converted"
            /\ \E i \in 1..Len(converted) : ~Suitable(converted[i].layerName)) =>
           /\ pc = "failed"
           /\ error = [stage |-> "generate", exc |-> "InvalidIdentifier"]
           /\ moveCode = NoValue
    /\ pc = "generated" =>
           LET names == DeclaredNames(moveCode)
           IN  \A k \in 1..Len(names) : Suitable(names[k])

\* ------------------------------------------------- fail-fast claims
\* C13 as stated: when load_h5_model, convert_weights_to_fixed or the
\* generation of an output text has failed, neither Move.toml nor model.move
\* is written and the run stays aborted; in every state of a run the two files
\* are both written or both unwritten.
C13_NoPartialWrites ==
    /\ (pc = "failed" /\ error.stage \in {"load", "convert", "generate"}) =>
           files = {}
    /\ ("Move.toml" \in files) = ("model.move" \in files)
    /\ pc \in {"published", "done"} => files = {"Move.toml", "model.move"}

\* --------------------------------------------------- loader claims
\* C14: load_h5_model invokes the Keras loader first; when that succeeds its
\* layers are returned and the h5py reader is not invoked; the h5py reader is
\* invoked, once, only after the Keras loader failed; the call raises exactly
\* when both strategies failed, and no strategy is invoked twice.
C14_LoaderOrder ==
    /\ pc = "start" => tried = <<>>
    /\ pc # "start" =>
          LET h5Fails == ~h5Opens \/ H5Loop(H5Keys(model), model).raised # ""
          IN  /\ Len(tried) \in 1..2
              /\ tried[1] = "keras"
              /\ Len(tried) = 2 => tried[2] = "h5py"
              /\ kerasLoads =>
                    /\ tried = <<"keras">>
                    /\ error.stage # "load"
                    /\ weights = KerasLoop(model)
              /\ ~kerasLoads => tried = <<"keras", "h5py">>
              /\ (error.stage = "load") = (~kerasLoads /\ h5Fails)
              /\ error.stage = "load" => pc = "failed" /\ weights = NoValue
              /\ (~kerasLoads /\ ~h5Fails) =>
                    weights = H5Loop(H5Keys(model), model).value

\* the Keras loader failed and the h5py reader, invoked after it, returned a
\* layer
C14_Witness ==
    /\ pc = "loaded" /\ ~kerasLoads
    /\ tried = <<"keras", "h5py">>
    /\ Len(weights) = 1 /\ weights[1].layerName = <<"dense">>

====
